---- MODULE Spec2Model ----
(***************************************************************************)
(* The cognate-set dispersion pipeline of setdist.py and the GlottoCache   *)
(* it shares with glottocache.py.                                          *)
(*                                                                         *)
(* Two specifications:                                                     *)
(*   SpecCache  one GlottoCache object driven by arbitrary get()/save()    *)
(*              calls;                                                     *)
(*   Spec       one run of main(): attach_glottolog_data,                  *)
(*              interpolate_positions, groupby, summarise_lexical_data,    *)
(*              build_microgroup_matrix, the two output files, and the     *)
(*              destruction of the cache object.                           *)
(*                                                                         *)
(* Python values: None is <<>>, a present number x is <<x>>.  A dict key   *)
(* that was never assigned is the string "unset".  Distances are integer   *)
(* kilometres; a mean is the exact fraction [num, den].                    *)
(***************************************************************************)
EXTENDS Integers, Sequences, FiniteSets, TLC

VARIABLES
    gc,         \* the GlottoCache object: cache, written, and the calls it made
    cachefile,  \* glottocache.pickle: [exists, content]
    loaded,     \* glottocache.pickle as it was when the object was constructed
    writes,     \* number of times glottocache.pickle was written
    saveCalls,  \* number of calls of GlottoCache.save
    callLog,    \* the calls a client made on the object, in order
    pc,         \* position of main()
    exc,        \* exception propagating out of main(), or "none"
    excLine,    \* source line of setdist.py that raised it
    data,       \* rows read by load_data
    rows,       \* rows after attach_glottolog_data / interpolate_positions
    grouped,    \* result of groupby, in insertion order
    summary,    \* result of summarise_lexical_data
    matrix,     \* result of build_microgroup_matrix
    outfiles    \* what main() wrote to summaryfile and matrixfile

vars == <<gc, cachefile, loaded, writes, saveCalls, callLog, pc, exc, excLine,
          data, rows, grouped, summary, matrix, outfiles>>

pipelineVars == <<pc, exc, excLine, data, rows, grouped, summary, matrix, outfiles>>

-----------------------------------------------------------------------------
(* Bounds *)

MaxRows == 3

MaxCalls == 4

-----------------------------------------------------------------------------
(* Python helpers *)

None == <<>>

Some(x) == <<x>>

\* truthiness of an optional number: None and 0 are falsy
Truthy(o) == o # None /\ o[1] # 0

SeqToSet(s) == {s[i] : i \in 1..Len(s)}

Abs(x) == IF x < 0 THEN -x ELSE x

RECURSIVE SetSum(_)
SetSum(S) == IF S = {} THEN 0 ELSE LET x == CHOOSE y \in S : TRUE IN x + SetSum(S \ {x})

SetMax(S) == CHOOSE x \in S : \A y \in S : y <= x

SetMin(S) == CHOOSE x \in S : \A y \in S : x <= y

-----------------------------------------------------------------------------
(* Program constants *)

MICROGROUPS == <<"Batanic", "Northern Luzon", "Central Luzon", "Ati", "Kalamian",
                 "Bilic", "South Mangyan", "Palawanic", "Central Philippine",
                 "Manobo", "Danaw", "Subanen", "Sangiric", "Minahasan",
                 "Gorontalo-Mongondow">>

REGIONALS == {"taga1270", "ilok1237", "pamp1243", "biko1240", "cebu1242",
              "hili1240", "wara1300"}

-----------------------------------------------------------------------------
(* The external taxonomic store consulted through self.glottolog.languoid. *)
(* Its contents are a small sample covering every kind of record the code  *)
(* distinguishes: Language or Family, with or without own coordinates, and *)
(* families with 3, 2 and 0 located descendants.                           *)

Anc(n, c) == [name |-> n, glottocode |-> c]

Member(lat, lon) == [latitude |-> lat, longitude |-> lon]

Languoid(cat, lat, lon, anc, desc) ==
    [category |-> cat, latitude |-> lat, longitude |-> lon,
     ancestors |-> anc, descendants |-> desc]

\* what languoid() returns for a code the store does not know: Python None
NoneLg == [category |-> "NoneType"]

Glottolog ==
    [code \in {"taga1270", "biko1240", "nort3238", "lang0000", "famb0002", "famz0000"} |->
        CASE code = "taga1270" ->
                Languoid("Language", Some(1), Some(1),
                         <<Anc("Greater Central Philippine", "grea1284"),
                           Anc("Central Philippine", "cent2246")>>, <<>>)
          [] code = "biko1240" ->
                Languoid("Family", None, None,
                         <<Anc("Greater Central Philippine", "grea1284"),
                           Anc("Central Philippine", "cent2246")>>,
                         <<Member(Some(1), Some(1)), Member(Some(4), Some(1)),
                           Member(None, None), Member(Some(1), Some(4))>>)
          [] code = "nort3238" ->
                Languoid("Family", Some(4), Some(1),
                         <<Anc("Northern Luzon", "nort3238")>>,
                         <<Member(Some(4), Some(2))>>)
          [] code = "lang0000" ->
                Languoid("Language", None, None,
                         <<Anc("Northern Luzon", "nort3238"), Anc("Batanic", "bata1315")>>,
                         <<>>)
          [] code = "famb0002" ->
                Languoid("Family", None, None, <<Anc("Manobo", "mano1276")>>,
                         <<Member(Some(2), Some(2)), Member(Some(3), Some(5))>>)
          [] code = "famz0000" ->
                Languoid("Family", None, None, <<>>,
                         <<Member(None, None), Member(Some(0), Some(7))>>)]

\* a code that looks valid but is not in the store
UnknownCode == "unkn0000"

Codes == DOMAIN Glottolog \cup {UnknownCode}

languoid(glottocode) ==
    IF glottocode \in DOMAIN Glottolog THEN Glottolog[glottocode] ELSE NoneLg

-----------------------------------------------------------------------------
(* GlottoCache *)

\* the object after __init__: cache read from the file, or {} when it is missing
GlottoCacheInit(file) ==
    [cache   |-> IF file.exists THEN file.content ELSE << >>,
     written |-> FALSE,
     fetches |-> [c \in Codes \cup {""} |-> 0],
     calls   |-> 0,
     ret     |-> NoneLg]

Put(d, k, v) == [x \in DOMAIN d \cup {k} |-> IF x = k THEN v ELSE d[x]]

get_nostore(g, glottocode) ==
    IF glottocode = ""
    THEN [g EXCEPT !.calls = @ + 1, !.ret = NoneLg]
    ELSE IF glottocode \in DOMAIN g.cache
    THEN [g EXCEPT !.calls = @ + 1, !.ret = g.cache[glottocode]]
    ELSE [g EXCEPT !.calls = @ + 1,
                   !.fetches[glottocode] = @ + 1,
                   !.written = TRUE,
                   !.ret = languoid(glottocode)]

\* GlottoCache.get: the object after the call; the returned value is .ret
get(g, glottocode) ==
    IF glottocode = ""
    THEN [g EXCEPT !.calls = @ + 1, !.ret = NoneLg]
    ELSE IF glottocode \in DOMAIN g.cache
    THEN [g EXCEPT !.calls = @ + 1, !.ret = g.cache[glottocode]]
    ELSE LET lg == languoid(glottocode) IN
         [g EXCEPT !.calls = @ + 1,
                   !.fetches[glottocode] = @ + 1,
                   !.cache = Put(g.cache, glottocode, lg),
                   !.written = TRUE,
                   !.ret = lg]

save_unguarded(g, file) ==
    [file |-> [exists |-> TRUE, content |-> g.cache], wrote |-> TRUE]

\* GlottoCache.save: the file after the call, and whether it was opened for writing
save(g, file) ==
    IF g.written
    THEN [file |-> [exists |-> TRUE, content |-> g.cache], wrote |-> TRUE]
    ELSE [file |-> file, wrote |-> FALSE]

\* a call of save() as part of a step of the run
DoSave ==
    LET s == save(gc, cachefile) IN
    /\ cachefile' = s.file
    /\ writes' = IF s.wrote THEN writes + 1 ELSE writes
    /\ saveCalls' = saveCalls + 1

\* pickle files a run can find on disk: none, or one written by an earlier run
StoredCaches ==
    {[exists |-> FALSE, content |-> << >>],
     [exists |-> TRUE, content |-> [c \in {"taga1270"} |-> Glottolog[c]]],
     [exists |-> TRUE, content |-> [c \in {"biko1240", UnknownCode} |-> languoid(c)]]}

-----------------------------------------------------------------------------
(* External geometry and distance libraries *)

\* geopy's Point normalisation: "float(latitude or 0.0)"
Norm(o) == IF Truthy(o) THEN o[1] ELSE 0

\* distance.distance(a, b) raises ValueError for a latitude outside [-90, 90]
DistanceRaises(a, b) == Abs(Norm(a[1])) > 90 \/ Abs(Norm(b[1])) > 90

\* distance.distance(a, b).km, on a grid where one degree is 111 km
Distance(a, b) ==
    111 * (Abs(Norm(a[1]) - Norm(b[1])) + Abs(Norm(a[2]) - Norm(b[2])))

\* geometry.Polygon(member_coords).centroid:
\*   no coordinates  -> the empty geometry, whose .x raises IndexError
\*   one or two      -> the constructor raises ValueError
\*   a triangle      -> the mean of its vertices
PolygonCentroid(member_coords) ==
    IF Len(member_coords) = 0 THEN [status |-> "empty", x |-> 0, y |-> 0]
    ELSE IF Len(member_coords) < 3 THEN [status |-> "ValueError", x |-> 0, y |-> 0]
    ELSE [status |-> "point",
          x |-> (member_coords[1][1] + member_coords[2][1] + member_coords[3][1]) \div 3,
          y |-> (member_coords[1][2] + member_coords[2][2] + member_coords[3][2]) \div 3]

-----------------------------------------------------------------------------
(* attach_glottolog_data *)

\* row | cache[code]
Enriched(row, entry) ==
    [ProtoForm |-> row.ProtoForm, GlottoCode |-> row.GlottoCode,
     Latitude |-> entry.Latitude, Longitude |-> entry.Longitude,
     Ancestors |-> entry.Ancestors, InterpolatedDistance |-> "unset"]

\* the columns a row had when it was loaded
Raw(row) == [ProtoForm |-> row.ProtoForm, GlottoCode |-> row.GlottoCode]

Names(ancestors) == [i \in 1..Len(ancestors) |-> ancestors[i].name]

AttachStart(g) ==
    [gc |-> g, cache |-> << >>, result |-> <<>>, exc |-> "none", line |-> 0]

\* one iteration of the loop, with the append inside "if code not in cache"
attach_row_first_only(acc, row) ==
    LET code == row.GlottoCode IN
    IF code = "" THEN acc
    ELSE IF code \in DOMAIN acc.cache THEN acc
    ELSE LET g == get(acc.gc, code)
             lg == g.ret
         IN  IF lg = NoneLg
             THEN [acc EXCEPT !.gc = g, !.exc = "AttributeError", !.line = 125]
             ELSE LET entry == [Latitude |-> lg.latitude, Longitude |-> lg.longitude,
                                Ancestors |-> Names(lg.ancestors)]
                  IN  [acc EXCEPT !.gc = g,
                                  !.cache = Put(acc.cache, code, entry),
                                  !.result = Append(@, Enriched(row, entry))]

\* one iteration of the loop of attach_glottolog_data
attach_row(acc, row) ==
    LET code == row.GlottoCode IN
    IF code = "" THEN acc
    ELSE IF code \in DOMAIN acc.cache
    THEN [acc EXCEPT !.result = Append(@, Enriched(row, acc.cache[code]))]
    ELSE LET g == get(acc.gc, code)
             lg == g.ret
         IN  IF lg = NoneLg
             THEN [acc EXCEPT !.gc = g, !.exc = "AttributeError", !.line = 125]
             ELSE LET entry == [Latitude |-> lg.latitude, Longitude |-> lg.longitude,
                                Ancestors |-> Names(lg.ancestors)]
                  IN  [acc EXCEPT !.gc = g,
                                  !.cache = Put(acc.cache, code, entry),
                                  !.result = Append(@, Enriched(row, entry))]

RECURSIVE attach_loop(_, _, _)
attach_loop(acc, rs, i) ==
    IF i > Len(rs) \/ acc.exc # "none" THEN acc
    ELSE attach_loop(attach_row(acc, rs[i]), rs, i + 1)

\* [gc, result, exc, line]: the cache object afterwards, the rows returned,
\* and the exception raised instead, if any
attach_glottolog_data(glottocache, rs) == attach_loop(AttachStart(glottocache), rs, 1)

-----------------------------------------------------------------------------
(* interpolate_positions *)

\* [(m.latitude, m.longitude) for m in lg.iter_descendants() if m.latitude]
MemberCoords(lg) ==
    LET located == SelectSeq(lg.descendants, LAMBDA m : Truthy(m.latitude))
    IN  [i \in 1..Len(located) |-> <<located[i].latitude[1], located[i].longitude[1]>>]

\* the try block, with the flag assigned before the centroid is read
set_centroid_flag_first(row, centroid) ==
    IF centroid.status = "point"
    THEN [row EXCEPT !.Latitude = Some(centroid.x), !.Longitude = Some(centroid.y),
                     !.InterpolatedDistance = "True"]
    ELSE [row EXCEPT !.InterpolatedDistance = "True"]

\* the try block of lines 152-157: an empty centroid raises IndexError at
\* centroid.x, before anything is assigned
set_centroid(row, centroid) ==
    IF centroid.status = "point"
    THEN [row EXCEPT !.Latitude = Some(centroid.x), !.Longitude = Some(centroid.y),
                     !.InterpolatedDistance = "True"]
    ELSE row

\* one iteration of the loop of interpolate_positions
interpolate_row(acc, row) ==
    LET code == row.GlottoCode
        g1 == get(acc.gc, code)
        lg == g1.ret
    IN  IF row.Latitude = None /\ lg.category = "Family"
        THEN IF code \notin DOMAIN acc.cache
             THEN LET g2 == get(g1, code)
                      centroid == PolygonCentroid(MemberCoords(g2.ret))
                  IN  IF centroid.status = "ValueError"
                      THEN [acc EXCEPT !.gc = g2, !.exc = "ValueError", !.line = 148]
                      ELSE [acc EXCEPT !.gc = g2,
                                       !.cache = Put(acc.cache, code, centroid),
                                       !.result = Append(@, set_centroid(row, centroid))]
             ELSE [acc EXCEPT !.gc = g1,
                              !.result = Append(@, set_centroid(row, acc.cache[code]))]
        ELSE [acc EXCEPT !.gc = g1,
                         !.result = Append(@, [row EXCEPT !.InterpolatedDistance = "False"])]

RECURSIVE interpolate_loop(_, _, _)
interpolate_loop(acc, rs, i) ==
    IF i > Len(rs) \/ acc.exc # "none" THEN acc
    ELSE interpolate_loop(interpolate_row(acc, rs[i]), rs, i + 1)

interpolate_positions(glottocache, rs) ==
    interpolate_loop(AttachStart(glottocache), rs, 1)

-----------------------------------------------------------------------------
(* groupby *)

KeyIndex(g, key) ==
    IF \E i \in 1..Len(g) : g[i].key = key
    THEN CHOOSE i \in 1..Len(g) : g[i].key = key
    ELSE 0

RECURSIVE groupby_loop(_, _, _)
groupby_loop(g, rs, i) ==
    IF i > Len(rs) THEN g
    ELSE LET protoform == rs[i].ProtoForm
             k == KeyIndex(g, protoform)
         IN  IF k > 0
             THEN groupby_loop([g EXCEPT ![k].rows = Append(@, rs[i])], rs, i + 1)
             ELSE groupby_loop(Append(g, [key |-> protoform, rows |-> <<rs[i]>>]), rs, i + 1)

\* the dict {protoform: rows} as the sequence of its items, in insertion order
groupby(rs) == groupby_loop(<<>>, rs, 1)

-----------------------------------------------------------------------------
(* summarise_lexical_data *)

compute_distances(rs) ==
    LET coords == [i \in 1..Len(rs) |-> <<rs[i].Latitude, rs[i].Longitude>>]
    IN  {Distance(coords[i], coords[j]) :
            <<i, j>> \in {p \in (1..Len(rs)) \X (1..Len(rs)) :
                             /\ coords[p[1]] # coords[p[2]]
                             /\ ~DistanceRaises(coords[p[1]], coords[p[2]])}}

Attr(a, attr) == IF attr = "name" THEN a.name ELSE a.glottocode

RECURSIVE unique_loop(_, _, _, _, _)
unique_loop(acc, groups, rs, attr, i) ==
    IF i > Len(rs) THEN acc
    ELSE LET g == get(acc.gc, rs[i].GlottoCode)
             lg == g.ret
             ancestors == {Attr(lg.ancestors[k], attr) : k \in 1..Len(lg.ancestors)}
             found == SelectSeq(groups, LAMBDA group : group \in ancestors)
         IN  unique_loop([gc |-> g, microgroups |-> acc.microgroups \o found],
                         groups, rs, attr, i + 1)

\* [gc, result]: the cache object afterwards and set(microgroups)
get_unique_microgroups(glottocache, groups, rs, attr) ==
    LET r == unique_loop([gc |-> glottocache, microgroups |-> <<>>], groups, rs, attr, 1)
    IN  [gc |-> r.gc, result |-> SeqToSet(r.microgroups)]

has_languages(languages, rs) ==
    Len(SelectSeq(rs, LAMBDA r : r.GlottoCode \in languages)) # 0

mean_undivided(distances) ==
    [num |-> SetSum(distances), den |-> 1]

\* sum(distances) / len(distances), as an exact fraction
mean(distances) ==
    [num |-> SetSum(distances), den |-> Cardinality(distances)]

\* True if any([row["InterpolatedDistance"] for row in rows]) else False
any_interpolated(rs) ==
    IF \E i \in 1..Len(rs) : rs[i].InterpolatedDistance = "True" THEN "True" ELSE "False"

\* one iteration of the loop of summarise_lexical_data
summarise_group(acc, protoform, rs) ==
    IF Len(rs) > 1
    THEN LET distances == compute_distances(rs)
             u == get_unique_microgroups(acc.gc, MICROGROUPS, rs, "name")
         IN  IF distances = {}
             THEN [acc EXCEPT !.gc = u.gc, !.exc = "ValueError", !.line = 219]
             ELSE IF \E i \in 1..Len(rs) : rs[i].InterpolatedDistance = "unset"
             THEN [acc EXCEPT !.gc = u.gc, !.exc = "KeyError", !.line = 222]
             ELSE [acc EXCEPT
                     !.gc = u.gc,
                     !.result = Append(@,
                        [protoform |-> protoform,
                         reflexes |-> Len(rs),
                         maxdist |-> SetMax(distances),
                         mindist |-> SetMin(distances),
                         meandist |-> mean(distances),
                         interpolated |-> any_interpolated(rs),
                         microgroups |-> u.result,
                         nmicrogroups |-> Cardinality(u.result),
                         hasregionallang |-> has_languages(REGIONALS, rs)])]
    ELSE acc

RECURSIVE summarise_loop(_, _, _)
summarise_loop(acc, g, i) ==
    IF i > Len(g) \/ acc.exc # "none" THEN acc
    ELSE summarise_loop(summarise_group(acc, g[i].key, g[i].rows), g, i + 1)

summarise_lexical_data(glottocache, g) ==
    summarise_loop(AttachStart(glottocache), g, 1)

-----------------------------------------------------------------------------
(* build_microgroup_matrix *)

matrix_row_any(row) ==
    [protoform |-> row.protoform, meandist |-> row.meandist,
     columns |-> [i \in 1..Len(MICROGROUPS) |->
                    IF row.microgroups # {} THEN 1 ELSE 0]]

\* the row built for one summary: columns[i] is the column of MICROGROUPS[i]
matrix_row(row) ==
    [protoform |-> row.protoform, meandist |-> row.meandist,
     columns |-> [i \in 1..Len(MICROGROUPS) |->
                    IF MICROGROUPS[i] \in row.microgroups THEN 1 ELSE 0]]

build_microgroup_matrix(rs) == [i \in 1..Len(rs) |-> matrix_row(rs[i])]

-----------------------------------------------------------------------------
(* SpecCache: a client calling get() and save() in any order *)

\* the arguments a client passes to get()
ClientCodes == {"", "taga1270", "biko1240", UnknownCode}

InitCache ==
    /\ cachefile \in StoredCaches
    /\ loaded = cachefile
    /\ gc = GlottoCacheInit(cachefile)
    /\ writes = 0
    /\ saveCalls = 0
    /\ callLog = <<>>
    /\ pc = "client"
    /\ exc = "none"
    /\ excLine = 0
    /\ data = <<>>
    /\ rows = <<>>
    /\ grouped = <<>>
    /\ summary = <<>>
    /\ matrix = <<>>
    /\ outfiles = "none"

ClientGet ==
    /\ pc = "client"
    /\ Len(callLog) < MaxCalls
    /\ \E code \in ClientCodes :
          /\ gc' = get(gc, code)
          /\ callLog' = Append(callLog, code)
    /\ UNCHANGED <<cachefile, loaded, writes, saveCalls, pipelineVars>>

ClientSave ==
    /\ pc = "client"
    /\ Len(callLog) < MaxCalls
    /\ DoSave
    /\ callLog' = Append(callLog, "save()")
    /\ UNCHANGED <<gc, loaded, pipelineVars>>

NextCache == ClientGet \/ ClientSave

SpecCache == InitCache /\ [][NextCache]_vars

-----------------------------------------------------------------------------
(* Spec: one run of main() *)

ProtoForms == {"P1", "P2"}

RawRows == [ProtoForm : ProtoForms, GlottoCode : Codes \cup {""}]

Tables == UNION {[1..n -> RawRows] : n \in 0..MaxRows}

\* after "gc = GlottoCache('.')" and "data = load_data(infile)"
Init ==
    /\ cachefile \in StoredCaches
    /\ loaded = cachefile
    /\ gc = GlottoCacheInit(cachefile)
    /\ writes = 0
    /\ saveCalls = 0
    /\ callLog = <<>>
    /\ pc = "attach"
    /\ exc = "none"
    /\ excLine = 0
    /\ data \in Tables
    /\ rows = <<>>
    /\ grouped = <<>>
    /\ summary = <<>>
    /\ matrix = <<>>
    /\ outfiles = "none"

cacheFileVars == <<cachefile, loaded, writes, saveCalls, callLog>>

\* an exception leaves main(): nothing below the raising line runs
Raise(r) ==
    /\ pc' = "raised"
    /\ exc' = r.exc
    /\ excLine' = r.line

\* line 264
AttachGlottologData ==
    /\ pc = "attach"
    /\ LET r == attach_glottolog_data(gc, data) IN
       /\ gc' = r.gc
       /\ IF r.exc = "none"
          THEN /\ rows' = r.result
               /\ pc' = "interpolate"
               /\ UNCHANGED <<exc, excLine>>
          ELSE /\ Raise(r)
               /\ UNCHANGED rows
    /\ UNCHANGED <<cacheFileVars, data, grouped, summary, matrix, outfiles>>

\* line 265
InterpolatePositions ==
    /\ pc = "interpolate"
    /\ LET r == interpolate_positions(gc, rows) IN
       /\ gc' = r.gc
       /\ IF r.exc = "none"
          THEN /\ rows' = r.result
               /\ pc' = "groupby"
               /\ UNCHANGED <<exc, excLine>>
          ELSE /\ Raise(r)
               /\ UNCHANGED rows
    /\ UNCHANGED <<cacheFileVars, data, grouped, summary, matrix, outfiles>>

\* line 266
GroupBy ==
    /\ pc = "groupby"
    /\ grouped' = groupby(rows)
    /\ pc' = "summarise"
    /\ UNCHANGED <<gc, cacheFileVars, exc, excLine, data, rows, summary, matrix, outfiles>>

\* line 267
SummariseLexicalData ==
    /\ pc = "summarise"
    /\ LET r == summarise_lexical_data(gc, grouped) IN
       /\ gc' = r.gc
       /\ IF r.exc = "none"
          THEN /\ summary' = r.result
               /\ pc' = "matrix"
               /\ UNCHANGED <<exc, excLine>>
          ELSE /\ Raise(r)
               /\ UNCHANGED summary
    /\ UNCHANGED <<cacheFileVars, data, rows, grouped, matrix, outfiles>>

\* line 268
BuildMicrogroupMatrix ==
    /\ pc = "matrix"
    /\ matrix' = build_microgroup_matrix(summary)
    /\ pc' = "write"
    /\ UNCHANGED <<gc, cacheFileVars, exc, excLine, data, rows, grouped, summary, outfiles>>

\* lines 270-277: summary[0] raises IndexError when no group was summarised,
\* after summaryfile has been opened for writing
WriteOutputs ==
    /\ pc = "write"
    /\ IF summary = <<>>
       THEN /\ Raise([exc |-> "IndexError", line |-> 271])
            /\ outfiles' = "summary_truncated"
       ELSE /\ pc' = "return"
            /\ outfiles' = "written"
            /\ UNCHANGED <<exc, excLine>>
    /\ UNCHANGED <<gc, cacheFileVars, data, rows, grouped, summary, matrix>>

\* main() returns: its local gc was the only reference to the cache object,
\* so the object is destroyed and __del__ calls save()
MainReturns ==
    /\ pc = "return"
    /\ DoSave
    /\ pc' = "exit"
    /\ UNCHANGED <<gc, loaded, callLog, exc, excLine, data, rows, grouped, summary,
                   matrix, outfiles>>

\* An uncaught exception: the traceback keeps main()'s frame, and with it the
\* cache object, alive until the interpreter exits.  Python does not
\* guarantee that __del__ is called for objects that still exist when the
\* interpreter exits, so both outcomes are possible.
ExitFinalised ==
    /\ pc = "raised"
    /\ DoSave
    /\ pc' = "exit"
    /\ UNCHANGED <<gc, loaded, callLog, exc, excLine, data, rows, grouped, summary,
                   matrix, outfiles>>

ExitNotFinalised ==
    /\ pc = "raised"
    /\ pc' = "exit"
    /\ UNCHANGED <<gc, cacheFileVars, exc, excLine, data, rows, grouped, summary,
                   matrix, outfiles>>

Next ==
    \/ AttachGlottologData
    \/ InterpolatePositions
    \/ GroupBy
    \/ SummariseLexicalData
    \/ BuildMicrogroupMatrix
    \/ WriteOutputs
    \/ MainReturns
    \/ ExitFinalised
    \/ ExitNotFinalised

Spec == Init /\ [][Next]_vars

-----------------------------------------------------------------------------
(* Properties *)

LoadedKeys == IF loaded.exists THEN DOMAIN loaded.content ELSE {}

Requested == {callLog[i] : i \in 1..Len(callLog)} \ {"save()"}

\* C1: over any sequence of get() calls on one cache object the store is
\* fetched exactly once for every non-empty code that was requested and was
\* not loaded from the file, and never for any other code; what was fetched
\* is stored under its code, and a get() of a stored code returns the stored
\* record.
C1_FetchedAtMostOncePerCode ==
    pc = "client" =>
        /\ \A c \in Codes \cup {""} :
              gc.fetches[c] = IF c \in Requested \ (LoadedKeys \cup {""}) THEN 1 ELSE 0
        /\ \A c \in Requested \ {""} :
              /\ c \in DOMAIN gc.cache
              /\ gc.cache[c] = IF c \in LoadedKeys THEN loaded.content[c] ELSE languoid(c)
        /\ Len(callLog) > 0 /\ callLog[Len(callLog)] \notin {"", "save()"}
              => gc.ret = gc.cache[callLog[Len(callLog)]]

\* a code is fetched by the first get() and served from the cache by two more
C1_Witness ==
    /\ ~loaded.exists
    /\ callLog = <<"taga1270", "taga1270", "taga1270">>
    /\ gc.fetches["taga1270"] = 1
    /\ gc.ret = Glottolog["taga1270"]

\* C2: save() writes the file only if get() added an entry since the cache
\* was loaded; while every get() was served from a loaded entry or had an
\* empty code, no save() writes and the file stays as it was loaded.
C2_SaveWritesOnlyAfterNewEntry ==
    pc = "client" =>
        /\ writes > 0 => DOMAIN gc.cache # LoadedKeys
        /\ DOMAIN gc.cache = LoadedKeys => cachefile = loaded /\ writes = 0

\* a loaded code and an empty code are looked up, then save() is called
C2_Witness ==
    /\ loaded.exists
    /\ callLog = <<"taga1270", "", "save()">>
    /\ DOMAIN gc.cache = LoadedKeys
    /\ saveCalls = 1
    /\ writes = 0

\* C3: every run of main() that has ended, normally or by an error, has
\* called save() exactly once.
C3_SavedExactlyOnceOnEveryExit ==
    pc = "exit" => saveCalls = 1

\* summarise_lexical_data has returned or raised
SummariseEnded ==
    \/ pc \in {"matrix", "write", "return"}
    \/ pc \in {"raised", "exit"} /\ excLine \in {219, 222, 271}
    \/ pc = "exit" /\ exc = "none"

QualifyingGroups == SelectSeq(grouped, LAMBDA g : Len(g.rows) > 1)

\* C4: once summarise_lexical_data has ended, the summary holds exactly one
\* record for each group of at least two rows and none for a smaller group.
C4_OneRecordPerGroupOfTwo ==
    SummariseEnded =>
        /\ Len(summary) = Len(QualifyingGroups)
        /\ \A i \in 1..Len(summary) :
              /\ summary[i].protoform = QualifyingGroups[i].key
              /\ summary[i].reflexes = Len(QualifyingGroups[i].rows)

GroupRows(protoform) == SelectSeq(rows, LAMBDA r : r.ProtoForm = protoform)

\* C5: in every summary record mindist <= meandist <= maxdist, all three are
\* non-negative, and meandist is the sum of the group's distinct pairwise
\* distances divided by their number.
C5_MinMeanMaxOrdered ==
    \A i \in 1..Len(summary) :
        LET r == summary[i]
            D == compute_distances(GroupRows(r.protoform))
        IN  /\ r.meandist.den > 0
            /\ r.mindist >= 0 /\ r.maxdist >= 0 /\ r.meandist.num >= 0
            /\ r.mindist * r.meandist.den <= r.meandist.num
            /\ r.meandist.num <= r.maxdist * r.meandist.den
            /\ r.meandist.num * Cardinality(D) = SetSum(D) * r.meandist.den

\* a record whose mean lies strictly between its minimum and its maximum
C5_Witness ==
    \E i \in 1..Len(summary) :
        LET r == summary[i] IN
        /\ r.mindist * r.meandist.den < r.meandist.num
        /\ r.meandist.num < r.maxdist * r.meandist.den

\* the row's coordinates are a centroid: the store has none for its code,
\* and the row has some
ByCentroid(row) ==
    /\ languoid(row.GlottoCode).latitude = None
    /\ row.Latitude # None

\* C6: the interpolated flag of a summary record is true iff some row of its
\* group got its coordinates from the centroid of its descendants.
C6_InterpolatedIffCentroidUsed ==
    \A i \in 1..Len(summary) :
        LET rs == GroupRows(summary[i].protoform) IN
        (summary[i].interpolated = "True") <=> (\E k \in 1..Len(rs) : ByCentroid(rs[k]))

\* a record that is flagged, of a group with one centroid row, one family row
\* with coordinates of its own and one language row without coordinates
C6_Witness ==
    \E i \in 1..Len(summary) :
        LET rs == GroupRows(summary[i].protoform) IN
        /\ summary[i].interpolated = "True"
        /\ \E k \in 1..Len(rs) : rs[k].GlottoCode = "biko1240" /\ ByCentroid(rs[k])
        /\ \E k \in 1..Len(rs) : rs[k].GlottoCode = "nort3238" /\ ~ByCentroid(rs[k])
        /\ \E k \in 1..Len(rs) : rs[k].GlottoCode = "lang0000" /\ ~ByCentroid(rs[k])

Ones(columns) == Cardinality({i \in DOMAIN columns : columns[i] = 1})

\* C7: build_microgroup_matrix emits one row per summary record, whose
\* columns are 0 or 1 and hold as many 1s as the record's nmicrogroups.
C7_OnesEqualNMicrogroups ==
    pc \in {"write", "return"} \/ outfiles # "none" =>
        /\ Len(matrix) = Len(summary)
        /\ \A i \in 1..Len(matrix) :
              /\ matrix[i].protoform = summary[i].protoform
              /\ DOMAIN matrix[i].columns = 1..Len(MICROGROUPS)
              /\ \A k \in DOMAIN matrix[i].columns : matrix[i].columns[k] \in {0, 1}
              /\ Ones(matrix[i].columns) = summary[i].nmicrogroups

\* a matrix row with three 1s among its fifteen columns
C7_Witness ==
    /\ pc = "write"
    /\ \E i \in 1..Len(matrix) :
          /\ Ones(matrix[i].columns) = 3
          /\ summary[i].nmicrogroups = 3

\* attach_glottolog_data has returned
AttachReturned == pc # "attach" /\ excLine # 125

WithCode == SelectSeq(data, LAMBDA r : r.GlottoCode # "")

\* C8: the enriched rows are the loaded rows with a non-empty code, all of
\* them and in order; a row with an empty code is in no group, counts in no
\* record's reflexes, and a protoform all of whose rows it accounts for has
\* no summary record and no matrix row.
C8_EmptyCodeRowsDropped ==
    AttachReturned =>
        /\ [i \in 1..Len(rows) |-> Raw(rows[i])] = WithCode
        /\ \A i \in 1..Len(grouped) :
              [k \in 1..Len(grouped[i].rows) |-> Raw(grouped[i].rows[k])]
                 = SelectSeq(WithCode, LAMBDA r : r.ProtoForm = grouped[i].key)
        /\ \A i \in 1..Len(summary) :
              summary[i].reflexes =
                 Len(SelectSeq(WithCode, LAMBDA r : r.ProtoForm = summary[i].protoform))
        /\ \A i \in 1..Len(matrix) :
              \E k \in 1..Len(WithCode) : WithCode[k].ProtoForm = matrix[i].protoform

\* a table with an empty-code row next to two located rows of the same
\* protoform went through the whole run
C8_Witness ==
    /\ pc = "return"
    /\ Len(data) = 3
    /\ \A i \in 1..3 : data[i].ProtoForm = "P1"
    /\ data[2].GlottoCode = ""
    /\ data[1].GlottoCode = "taga1270"
    /\ data[3].GlottoCode = "biko1240"
    /\ Len(rows) = 2
    /\ Len(summary) = 1
    /\ summary[1].reflexes = 2
    /\ Len(matrix) = 1

\* C9: when a group of at least two rows has an empty distance set,
\* summarise_lexical_data does not raise on it.
C9_EmptyDistanceSetDoesNotRaise ==
    /\ SummariseEnded
    /\ \E i \in 1..Len(grouped) :
          Len(grouped[i].rows) > 1 /\ compute_distances(grouped[i].rows) = {}
    => ~(exc = "ValueError" /\ excLine = 219)

\* the row's code is a family without coordinates and with fewer than three
\* located descendants
DegenerateFamily(row) ==
    LET lg == languoid(row.GlottoCode) IN
    /\ lg.category = "Family"
    /\ lg.latitude = None
    /\ Len(MemberCoords(lg)) < 3

\* C10: when a row's family has fewer than three located descendants,
\* interpolate_positions does not raise: it returns every row, that one with
\* its coordinates unset.
C10_DegenerateCentroidNotFatal ==
    /\ AttachReturned
    /\ pc # "interpolate"
    /\ \E i \in 1..Len(rows) : DegenerateFamily(rows[i])
    => /\ excLine # 148
       /\ Len(rows) = Len(WithCode)
       /\ \A i \in 1..Len(rows) : DegenerateFamily(rows[i]) => rows[i].Latitude = None

====
